---- MODULE Spec2Model ----
(***************************************************************************)
(* Model of src/pdf_artwork_extractor.py: the extraction of artwork        *)
(* records from gallery catalogue PDFs.                                    *)
(*                                                                         *)
(* A Python str is a sequence of one-character strings.  The two non-ASCII *)
(* characters the program mentions are the atoms MultSign and              *)
(* CopyrightSign.  None is the empty sequence wherever the program only    *)
(* tests a value's truth (price, image_path, image_data, a regex match).   *)
(***************************************************************************)
EXTENDS Integers, Sequences, FiniteSets, TLC

\* ------------------------------------------------------------------------
\* Characters and str methods
\* ------------------------------------------------------------------------

MultSign == "(times)"
CopyrightSign == "(c)"

Digit == {"0", "1", "2", "3", "4", "5", "6", "7", "8", "9"}

LowerLetters ==
  <<"a", "b", "c", "d", "e", "f", "g", "h", "i", "j", "k", "l", "m",
    "n", "o", "p", "q", "r", "s", "t", "u", "v", "w", "x", "y", "z">>

UpperLetters ==
  <<"A", "B", "C", "D", "E", "F", "G", "H", "I", "J", "K", "L", "M",
    "N", "O", "P", "Q", "R", "S", "T", "U", "V", "W", "X", "Y", "Z">>

Letter == {LowerLetters[i] : i \in 1..26} \cup {UpperLetters[i] : i \in 1..26}

\* \s of the re module, and what str.strip() removes
Whitespace == {" ", "\n", "\t"}

\* \w of the re module
WordChar == Digit \cup Letter \cup {"_"}

Min(S) == CHOOSE m \in S : \A o \in S : m <= o

\* str.lower() of one character
LowerChar(c) ==
  IF \E i \in 1..26 : UpperLetters[i] = c
    THEN LowerLetters[CHOOSE i \in 1..26 : UpperLetters[i] = c]
    ELSE c

\* str.lower()
Lower(s) == [i \in 1..Len(s) |-> LowerChar(s[i])]

\* whether pat occurs in s at position i
OccursAt(s, i, pat) ==
  /\ i >= 1
  /\ i + Len(pat) - 1 <= Len(s)
  /\ \A j \in 1..Len(pat) : s[i + j - 1] = pat[j]

\* the "in" operator on two strs
Contains(s, pat) == \E i \in 1..(Len(s) - Len(pat) + 1) : OccursAt(s, i, pat)

\* str.strip()
Strip(s) ==
  LET keep == {i \in 1..Len(s) : s[i] \notin Whitespace}
  IN  IF keep = {} THEN <<>>
      ELSE SubSeq(s, Min(keep), CHOOSE m \in keep : \A o \in keep : o <= m)

\* str.isdigit()
IsDigit(s) == Len(s) > 0 /\ \A i \in 1..Len(s) : s[i] \in Digit

\* str.split(sep) from position from on: the occurrences of sep are taken
\* left to right and do not overlap; empty parts are kept
RECURSIVE SplitFrom(_, _, _)
SplitFrom(s, sep, from) ==
  LET occ == {i \in from..(Len(s) - Len(sep) + 1) : OccursAt(s, i, sep)}
  IN  IF occ = {} THEN <<SubSeq(s, from, Len(s))>>
      ELSE <<SubSeq(s, from, Min(occ) - 1)>>
             \o SplitFrom(s, sep, Min(occ) + Len(sep))

Split(s, sep) == SplitFrom(s, sep, 1)

\* [p.strip() for p in text.split(sep) if p.strip()]
RECURSIVE StripAll(_)
StripAll(parts) ==
  IF parts = <<>> THEN <<>>
  ELSE LET p == Strip(Head(parts))
       IN  (IF p = <<>> THEN <<>> ELSE <<p>>) \o StripAll(Tail(parts))

StrippedParts(text, sep) == StripAll(Split(text, sep))

\* ------------------------------------------------------------------------
\* The compiled patterns of __init__.  A search returns the text of the
\* leftmost match (group(0)), or the empty sequence for no match.
\* ------------------------------------------------------------------------

\* the position after the longest run of characters of class from i on
RECURSIVE SkipRun(_, _, _)
SkipRun(s, i, class) ==
  IF i <= Len(s) /\ s[i] \in class THEN SkipRun(s, i + 1, class) ELSE i

IsAt(s, i, class) == i >= 1 /\ i <= Len(s) /\ s[i] \in class

\* \b between positions i-1 and i
WordBoundary(s, i) == IsAt(s, i - 1, WordChar) # IsAt(s, i, WordChar)

\* r'\b(19|20)\d{2}\b' at position i
YearAt(s, i) ==
  /\ WordBoundary(s, i)
  /\ OccursAt(s, i, <<"1", "9">>) \/ OccursAt(s, i, <<"2", "0">>)
  /\ IsAt(s, i + 2, Digit)
  /\ IsAt(s, i + 3, Digit)
  /\ WordBoundary(s, i + 4)

year_pattern_search(s) ==
  LET starts == {i \in 1..(Len(s) - 3) : YearAt(s, i)}
  IN  IF starts = {} THEN <<>> ELSE SubSeq(s, Min(starts), Min(starts) + 3)

\* \d+(\.\d+)? from i: the position after it, 0 when it does not match.
\* What follows the number in both patterns is never a digit or a dot, so
\* only the longest match can be continued.
NumberEnd(s, i) ==
  IF ~IsAt(s, i, Digit) THEN 0
  ELSE LET j == SkipRun(s, i, Digit)
       IN  IF IsAt(s, j, {"."}) /\ IsAt(s, j + 1, Digit)
             THEN SkipRun(s, j + 1, Digit)
             ELSE j

\* \s*[x(times)]\s*\d+(\.\d+)? from i under IGNORECASE
TimesNumberEnd(s, i) ==
  LET j == SkipRun(s, i, Whitespace)
  IN  IF IsAt(s, j, {"x", "X", MultSign})
        THEN NumberEnd(s, SkipRun(s, j + 1, Whitespace))
        ELSE 0

\* (cm|in|inches|mm)\b from i under IGNORECASE: the alternatives in order
UnitEnd(s, i) ==
  LET low == Lower(SubSeq(s, i, IF i + 5 <= Len(s) THEN i + 5 ELSE Len(s)))
      Try(unit) == OccursAt(low, 1, unit) /\ WordBoundary(s, i + Len(unit))
  IN  IF Try(<<"c", "m">>) THEN i + 2
      ELSE IF Try(<<"i", "n">>) THEN i + 2
      ELSE IF Try(<<"i", "n", "c", "h", "e", "s">>) THEN i + 6
      ELSE IF Try(<<"m", "m">>) THEN i + 2
      ELSE 0

\* dimensions_pattern at position i: the position after the match, or 0
DimensionsEnd(s, i) ==
  IF ~WordBoundary(s, i) THEN 0
  ELSE LET a == NumberEnd(s, i)
           b == IF a = 0 THEN 0 ELSE TimesNumberEnd(s, a)
           c == IF b = 0 THEN 0 ELSE TimesNumberEnd(s, b)
           \* the optional third dimension is tried first
           withDepth == IF c = 0 THEN 0 ELSE UnitEnd(s, SkipRun(s, c, Whitespace))
       IN  IF b = 0 THEN 0
           ELSE IF withDepth # 0 THEN withDepth
           ELSE UnitEnd(s, SkipRun(s, b, Whitespace))

dimensions_pattern_search(s) ==
  LET starts == {i \in 1..Len(s) : s[i] \in Digit /\ DimensionsEnd(s, i) # 0}
  IN  IF starts = {} THEN <<>>
      ELSE SubSeq(s, Min(starts), DimensionsEnd(s, Min(starts)) - 1)

\* (?:,\d{3})* from i, greedy
RECURSIVE ThousandsEnd(_, _)
ThousandsEnd(s, i) ==
  IF /\ IsAt(s, i, {","})
     /\ IsAt(s, i + 1, Digit) /\ IsAt(s, i + 2, Digit) /\ IsAt(s, i + 3, Digit)
    THEN ThousandsEnd(s, i + 4)
    ELSE i

\* (?:\.\d+)? from i, greedy
FractionEnd(s, i) ==
  IF IsAt(s, i, {"."}) /\ IsAt(s, i + 1, Digit)
    THEN SkipRun(s, i + 1, Digit)
    ELSE i

\* \d{1,3} from i taking n digits
DigitsAt(s, i, n) == \A j \in 0..(n - 1) : IsAt(s, i + j, Digit)

\* \$\s*\d{1,3}(?:,\d{3})*(?:\.\d+)? at i: nothing follows the pattern, so
\* every quantifier keeps its greedy choice
SymbolPriceEnd(s, i) ==
  IF ~IsAt(s, i, {"$"}) THEN 0
  ELSE LET j == SkipRun(s, i + 1, Whitespace)
           n == IF DigitsAt(s, j, 3) THEN 3
                ELSE IF DigitsAt(s, j, 2) THEN 2
                ELSE IF DigitsAt(s, j, 1) THEN 1 ELSE 0
       IN  IF n = 0 THEN 0 ELSE FractionEnd(s, ThousandsEnd(s, j + n))

\* (?:USD|EUR|GBP) from i under IGNORECASE
CurrencyEnd(s, i) ==
  LET low == Lower(SubSeq(s, i, IF i + 2 <= Len(s) THEN i + 2 ELSE Len(s)))
  IN  IF low \in {<<"u", "s", "d">>, <<"e", "u", "r">>, <<"g", "b", "p">>}
        THEN i + 3 ELSE 0

\* \d{1,3}(?:,\d{3})*(?:\.\d+)?\s*(?:USD|EUR|GBP) at i with n leading digits
CodePriceEndWith(s, i, n) ==
  IF ~DigitsAt(s, i, n) THEN 0
  ELSE LET t == ThousandsEnd(s, i + n)
           \* backtracking: with the fraction, then without it
           full == CurrencyEnd(s, SkipRun(s, FractionEnd(s, t), Whitespace))
       IN  IF full # 0 THEN full ELSE CurrencyEnd(s, SkipRun(s, t, Whitespace))

\* backtracking over \d{1,3}: three digits, then two, then one
CodePriceEnd(s, i) ==
  IF CodePriceEndWith(s, i, 3) # 0 THEN CodePriceEndWith(s, i, 3)
  ELSE IF CodePriceEndWith(s, i, 2) # 0 THEN CodePriceEndWith(s, i, 2)
  ELSE CodePriceEndWith(s, i, 1)

\* price_pattern at position i: the first alternative, then the second
PriceEnd(s, i) ==
  IF SymbolPriceEnd(s, i) # 0 THEN SymbolPriceEnd(s, i) ELSE CodePriceEnd(s, i)

price_pattern_search(s) ==
  LET starts == {i \in 1..Len(s) : s[i] \in Digit \cup {"$"} /\ PriceEnd(s, i) # 0}
  IN  IF starts = {} THEN <<>>
      ELSE SubSeq(s, Min(starts), PriceEnd(s, Min(starts)) - 1)

\* ------------------------------------------------------------------------
\* is_likely_metadata
\* ------------------------------------------------------------------------

metadata_indicators ==
  { <<"p", "a", "g", "e">>,
    <<"c", "o", "p", "y", "r", "i", "g", "h", "t">>,
    <<CopyrightSign>>,
    <<"a", "l", "l", " ", "r", "i", "g", "h", "t", "s">>,
    <<"g", "a", "l", "l", "e", "r", "y">>,
    <<"c", "o", "n", "t", "a", "c", "t">>,
    <<"e", "m", "a", "i", "l">>,
    <<"p", "h", "o", "n", "e">>,
    <<"w", "e", "b", "s", "i", "t", "e">>,
    <<"w", "w", "w">> }

is_likely_metadata(text) ==
  LET text_lower == Lower(text)
  IN  \E indicator \in metadata_indicators : Contains(text_lower, indicator)

\* ------------------------------------------------------------------------
\* Artwork and the two parsing strategies
\* ------------------------------------------------------------------------

\* Artwork(page_number=n): the dataclass's defaults.  confidence_score is
\* the float's number of tenths: fields_found / 5.0 is 2 * fields_found
\* tenths and the literal 0.6 is 6 tenths (3 / 5.0 and 0.6 are the same
\* double, so the comparison below is exact).
Artwork(page_number) ==
  [title |-> <<>>, artist |-> <<>>, year |-> <<>>, dimensions |-> <<>>,
   medium |-> <<>>, price |-> <<>>, image_path |-> <<>>, image_data |-> <<>>,
   page_number |-> page_number, confidence_score |-> 0]

\* "if not artwork.f: m = pattern.search(s); if m: artwork.f = m.group(0)"
SetIfEmpty(artwork, f, match) ==
  IF artwork[f] = <<>> /\ match # <<>> THEN [artwork EXCEPT ![f] = match]
  ELSE artwork

\* lines = [line.strip() for line in text.split('\n') if line.strip()]
Lines(text) == StrippedParts(text, <<"\n">>)

HeaderLines == 5

\* a naming by the first two lines whatever they are, which the code
\* does not do
FirstTwoLines(lines, i, artwork, found_artist, found_title) ==
  IF Len(lines) >= 2
    THEN [artwork EXCEPT !.artist = lines[1], !.title = lines[2]]
    ELSE artwork

\* the first loop of parse_artwork_linebreak_format from lines[:5][i] on
RECURSIVE FindArtistTitle(_, _, _, _, _)
FindArtistTitle(lines, i, artwork, found_artist, found_title) ==
  IF i > Len(lines) \/ i > HeaderLines THEN artwork
  ELSE LET line == lines[i]
       IN  IF Len(line) < 3 \/ IsDigit(line)
             THEN FindArtistTitle(lines, i + 1, artwork, found_artist, found_title)
           ELSE IF ~found_artist /\ ~is_likely_metadata(line)
             THEN FindArtistTitle(lines, i + 1, [artwork EXCEPT !.artist = line],
                                  TRUE, found_title)
           ELSE IF found_artist /\ ~found_title /\ ~is_likely_metadata(line)
             THEN FindArtistTitle(lines, i + 1, [artwork EXCEPT !.title = line],
                                  found_artist, TRUE)
           ELSE IF found_artist /\ found_title THEN artwork
           ELSE FindArtistTitle(lines, i + 1, artwork, found_artist, found_title)

\* whether s matches none of the three patterns
NoPatternIn(s) ==
  /\ year_pattern_search(s) = <<>>
  /\ dimensions_pattern_search(s) = <<>>
  /\ price_pattern_search(s) = <<>>

\* one pass of the second loop of parse_artwork_linebreak_format
LinebreakLine(line, artwork) ==
  LET a1 == SetIfEmpty(artwork, "year", year_pattern_search(line))
      a2 == SetIfEmpty(a1, "dimensions", dimensions_pattern_search(line))
      a3 == SetIfEmpty(a2, "price", price_pattern_search(line))
  IN  IF /\ a3.medium = <<>> /\ ~is_likely_metadata(line) /\ Len(line) > 5
         /\ NoPatternIn(line)
         /\ line # a3.artist /\ line # a3.title
        THEN [a3 EXCEPT !.medium = line]
        ELSE a3

\* fields_found = sum(1 for f in [title, artist, year, dimensions, medium] if f)
FieldsFound(artwork) ==
    (IF artwork.title # <<>> THEN 1 ELSE 0)
  + (IF artwork.artist # <<>> THEN 1 ELSE 0)
  + (IF artwork.year # <<>> THEN 1 ELSE 0)
  + (IF artwork.dimensions # <<>> THEN 1 ELSE 0)
  + (IF artwork.medium # <<>> THEN 1 ELSE 0)

\* a scoring that counts price as a sixth field, which the code does not
ScoredWithPrice(artwork) ==
  [artwork EXCEPT !.confidence_score =
     2 * (FieldsFound(artwork) + IF artwork.price # <<>> THEN 1 ELSE 0)]

\* artwork.confidence_score = fields_found / 5.0
Scored(artwork) == [artwork EXCEPT !.confidence_score = 2 * FieldsFound(artwork)]

\* a threshold that 0.6 itself clears, which the code's does not
ConfidentFromThreshold(artwork) == artwork.confidence_score >= 6

\* confidence_score > 0.6
Confident(artwork) == artwork.confidence_score > 6

separators == << <<",">>, <<"|">>, <<" ", " ">>, <<"\n">> >>

\* a naming that overwrites artist and title, which the code does not
InlineNamesOverwriting(parts, artwork) ==
  [artwork EXCEPT !.artist = parts[1], !.title = parts[2]]

\* "if not artwork.artist: ... parts[0]; if not artwork.title: ... parts[1]"
InlineNames(parts, artwork) ==
  SetIfEmpty(SetIfEmpty(artwork, "artist", parts[1]), "title", parts[2])

\* one pass of the loop over parts[2:] of parse_artwork_inline_format
InlinePart(part, artwork) ==
  LET a1 == SetIfEmpty(artwork, "year", year_pattern_search(part))
      a2 == SetIfEmpty(a1, "dimensions", dimensions_pattern_search(part))
      a3 == SetIfEmpty(a2, "price", price_pattern_search(part))
  IN  IF /\ a3.medium = <<>> /\ ~is_likely_metadata(part) /\ Len(part) > 5
         /\ NoPatternIn(part)
        THEN [a3 EXCEPT !.medium = part]
        ELSE a3

\* ------------------------------------------------------------------------
\* Page texts the model runs the extractor on
\* ------------------------------------------------------------------------

\* spec scenario 1: one field per line
Scenario1Text ==
  <<"J", "a", "n", "e", " ", "D", "o", "e", "\n", "S", "u", "n", "s", "e",
    "t", " ", "O", "v", "e", "r", " ", "t", "h", "e", " ", "B", "a", "y",
    "\n", "o", "i", "l", " ", "o", "n", " ", "c", "a", "n", "v", "a", "s",
    "\n", "2", "4", " ", "x", " ", "3", "6", " ", "i", "n", "\n", "2", "0",
    "1", "9", "\n", "$", "4", ",", "5", "0", "0">>

\* spec scenario 2: only metadata-like lines
Scenario2Text ==
  <<"P", "a", "g", "e", " ", "3", "\n", CopyrightSign, " ", "2", "0", "2",
    "0", " ", "G", "a", "l", "l", "e", "r", "y", " ", "I", "n", "c", ".",
    " ", "A", "l", "l", " ", "r", "i", "g", "h", "t", "s", " ", "r", "e",
    "s", "e", "r", "v", "e", "d", ".", " ", "C", "o", "n", "t", "a", "c",
    "t", ":", " ", "i", "n", "f", "o", "@", "g", "a", "l", "l", "e", "r",
    "y", ".", "c", "o", "m">>

\* spec scenario 3: one line, comma separated
Scenario3Text ==
  <<"M", "a", "r", "y", " ", "S", "m", "i", "t", "h", ",", " ", "B", "l",
    "u", "e", " ", "H", "o", "r", "i", "z", "o", "n", ",", " ", "a", "c",
    "r", "y", "l", "i", "c", " ", "o", "n", " ", "c", "a", "n", "v", "a",
    "s", ",", " ", "2", "0", "2", "1", ",", " ", "3", "0", "x", "4", "0",
    " ", "c", "m">>

\* the names come after the fifth line
LateNamesText ==
  <<"1", "\n", "2", "2", "\n", "a", "b", "\n", "P", "a", "g", "e", " ",
    "4", "\n", "3", "3", "3", "\n", "A", "n", "n", "a", " ", "L", "e", "e",
    "\n", "R", "e", "d", " ", "F", "i", "e", "l", "d", "\n", "5", "0", " ",
    "x", " ", "7", "0", " ", "c", "m", "\n", "1", "9", "9", "8">>

\* one line, pipe separated
PipeText ==
  <<"T", "o", "m", " ", "R", "a", "y", " ", "|", " ", "D", "u", "s", "k",
    " ", "|", " ", "1", "9", "8", "7", " ", "|", " ", "1", "0", " ", "x",
    " ", "1", "2", " ", "i", "n", "c", "h", "e", "s", " ", "|", " ", "1",
    ",", "2", "0", "0", " ", "U", "S", "D">>

\* one line, separated by two spaces
TwoSpaceText ==
  <<"I", "d", "a", " ", "R", "o", "e", " ", " ", "H", "a", "r", "b", "o",
    "r", " ", " ", "2", "0", "1", "0", " ", " ", "w", "a", "t", "e", "r",
    "c", "o", "l", "o", "r", " ", "o", "n", " ", "p", "a", "p", "e", "r">>

\* three comma separated parts and no metadata
ShortListText ==
  <<"A", "n", "n", ",", " ", "B", "o", "b", ",", " ", "C", "y">>

\* four of the five fields, one per line
FourFieldText ==
  <<"L", "e", "e", " ", "W", "u", "\n", "N", "i", "g", "h", "t", "\n", "2",
    "0", "0", "1", "\n", "5", "x", "5", " ", "c", "m">>

\* several matches of each pattern
RepeatsText ==
  <<"7", "\n", "A", "n", "n", " ", "O", "d", "e", "\n", "w", "w", "w", ".",
    "o", "d", "e", ".", "a", "r", "t", "\n", "M", "o", "r", "n", "i", "n",
    "g", " ", "1", "9", "9", "9", "\n", "2", "0", "0", "5", "\n", "$", "5",
    " ", "a", "n", "d", " ", "$", "7", "\n", "3", " ", "x", " ", "4", " ",
    "c", "m", ",", " ", "5", " ", MultSign, " ", "6", " ", "C", "M">>

TextPool ==
  { Scenario1Text, Scenario2Text, Scenario3Text, LateNamesText, PipeText,
    TwoSpaceText, ShortListText, FourFieldText, RepeatsText }

\* ------------------------------------------------------------------------
\* Images
\* ------------------------------------------------------------------------

\* What doc.extract_image(xref) gives for each xref of the documents: one
\* base image, or nothing (the empty dict) for an xref that holds no image.
\* The xref itself stands for the image's bytes.
XrefTable ==
  << <<[width |-> 500, height |-> 500, ext |-> "png"]>>,
     <<[width |-> 250, height |-> 1000, ext |-> "jpeg"]>>,
     <<[width |-> 101, height |-> 101, ext |-> "png"]>>,
     <<[width |-> 100, height |-> 300, ext |-> "png"]>>,
     <<[width |-> 300, height |-> 100, ext |-> "jpeg"]>>,
     <<[width |-> 50, height |-> 50, ext |-> "png"]>>,
     <<>>,
     <<[width |-> 800, height |-> 600, ext |-> "jpeg"]>> >>

Xrefs == 1..Len(XrefTable)

extract_image(xref) == XrefTable[xref]

MinImageSide == 100

\* the loop of extract_images over image_list[i..]: img_info[0] is the xref
RECURSIVE CollectImages(_, _)
CollectImages(image_list, i) ==
  IF i > Len(image_list) THEN <<>>
  ELSE LET xref == image_list[i]
           base_image == extract_image(xref)
           image_data == [xref |-> xref,
                          width |-> base_image[1].width,
                          height |-> base_image[1].height,
                          image_bytes |-> xref,
                          extension |-> base_image[1].ext]
       IN  (IF /\ base_image # <<>>
               /\ image_data.width > MinImageSide
               /\ image_data.height > MinImageSide
              THEN <<image_data>> ELSE <<>>)
           \o CollectImages(image_list, i + 1)

\* a sort key of the width alone, which the code's is not
WidthKey(x) == x.width

\* key=lambda x: x["width"] * x["height"]
SizeKey(x) == x.width * x.height

\* list.sort(key=..., reverse=True) is stable: an element goes behind all
\* elements whose key is not smaller
RECURSIVE InsertBySize(_, _)
InsertBySize(sorted, x) ==
  IF sorted = <<>> THEN <<x>>
  ELSE IF SizeKey(Head(sorted)) >= SizeKey(x)
    THEN <<Head(sorted)>> \o InsertBySize(Tail(sorted), x)
  ELSE <<x>> \o sorted

RECURSIVE SortBySize(_, _)
SortBySize(list, sorted) ==
  IF list = <<>> THEN sorted
  ELSE SortBySize(Tail(list), InsertBySize(sorted, Head(list)))

\* extract_images, given page.get_images(full=True)
extract_images(image_list) == SortBySize(CollectImages(image_list, 1), <<>>)

\* ------------------------------------------------------------------------
\* Pages and documents
\* ------------------------------------------------------------------------

TextLimit == 2000

\* s followed by blanks up to n characters
PadTo(s, n) == s \o [i \in 1..(n - Len(s)) |-> " "]

\* a page text of exactly TextLimit characters, and one character more
ExactLimitText == PadTo(FourFieldText \o <<"\n">>, TextLimit)
OverLimitText == PadTo(FourFieldText \o <<"\n">>, TextLimit + 1)

\* The pages of the documents: what page.get_text() and
\* page.get_images(full=True) give.  A page handle is an index of Pages.
Pages ==
  << [text |-> Scenario1Text, image_list |-> <<1>>],
     [text |-> Scenario2Text, image_list |-> <<1>>],
     [text |-> Scenario3Text, image_list |-> <<>>],
     [text |-> OverLimitText, image_list |-> <<8>>],
     [text |-> ExactLimitText, image_list |-> <<8>>],
     [text |-> OverLimitText, image_list |-> <<3, 8>>],
     [text |-> Scenario1Text, image_list |-> <<6, 2, 7, 1, 4>>],
     [text |-> TwoSpaceText, image_list |-> <<3, 1>>],
     [text |-> Scenario1Text, image_list |-> <<4, 6>>],
     [text |-> PipeText, image_list |-> <<5, 3>>] >>

PageHandles == 1..Len(Pages)

get_text(page) == Pages[page].text

get_images(page) == Pages[page].image_list

SAVE_IMAGES == TRUE

\* is_main_artwork_page
is_main_artwork_page(text) ==
  LET has_dimensions == dimensions_pattern_search(text) # <<>>
      has_year == year_pattern_search(text) # <<>>
  IN  has_dimensions /\ has_year

\* a split with one section for every image, which the code does not make
SectionPerImage(page, images) ==
  [i \in 1..Len(images) |-> <<get_text(page), <<images[i]>> >>]

\* split_page_into_sections: (text, image) pairs, the image a list of at
\* most one element (None is the empty list)
split_page_into_sections(page, images) ==
  IF images = <<>> THEN << <<get_text(page), <<>> >> >>
  ELSE << <<get_text(page), SubSeq(images, 1, 1)>> >>

\* the part of extract_artwork_info_from_text that saves the image of a
\* parsed artwork.  img_filename is kept as the values its f-string is
\* built from.  write_ok is whether open(img_path, "wb") and the write
\* succeed; when they do not, the OSError leaves the method.
SaveImage(artwork, stem, page_num, image, n_artworks, write_ok) ==
  IF image # <<>> /\ SAVE_IMAGES
    THEN IF write_ok
           THEN [raised |-> FALSE,
                 value |-> <<[artwork EXCEPT
                     !.image_path = <<stem, page_num + 1, n_artworks + 1,
                                      image[1].extension>>,
                     !.image_data = <<"data:image", image[1].extension,
                                      image[1].image_bytes>>]>>]
           ELSE [raised |-> TRUE, value |-> <<>>]
    ELSE [raised |-> FALSE, value |-> <<artwork>>]

\* a skip that already takes a text of exactly 2000 characters for long,
\* which the code does not
SkipsPageFromLimit(text, images) ==
  images = <<>> \/ (Len(text) >= TextLimit /\ Len(images) < 2)

\* whether process_page returns at once ("Skipping page ...")
SkipsPage(text, images) ==
  images = <<>> \/ (Len(text) > TextLimit /\ Len(images) < 2)

\* The files PDF_DIR.glob(PDF_GLOB) can list: the stem of each, whether
\* pymupdf.open reads it, and its pages.  A file is an index of Files.
Files ==
  << [stem |-> "spring", opens |-> TRUE, pages |-> <<1, 7>>],
     [stem |-> "bios", opens |-> TRUE, pages |-> <<3, 4>>],
     [stem |-> "broken", opens |-> FALSE, pages |-> <<>>],
     [stem |-> "autumn", opens |-> TRUE, pages |-> <<8, 2, 5>>],
     [stem |-> "blank", opens |-> TRUE, pages |-> <<>>] >>

\* what json.dump writes for one artwork: image_data cut to 100 characters
\* and "..." (the data URL of a retained image is longer than that)
JsonArtwork(a) ==
  [a EXCEPT !.image_data = IF @ # <<>> THEN Append(@, "...") ELSE @]

JsonArtworks(list) == [i \in 1..Len(list) |-> JsonArtwork(list[i])]

\* ------------------------------------------------------------------------
\* Bounds of the model
\* ------------------------------------------------------------------------

MaxImages == 3
MaxPages == 2
MaxFiles == 3

SeqsUpTo(S, n) == UNION {[1..k -> S] : k \in 0..n}

\* ------------------------------------------------------------------------
\* State
\* ------------------------------------------------------------------------

VARIABLES
  pc,             \* where the program stands
  exc,            \* the exception that ended the run: <<>> for none
  image_list,     \* extract_images: what page.get_images(full=True) gave
  images,         \* extract_images: the list it returned
  pending,        \* process_page: the (text, image) pairs still to extract
  page_artworks,  \* process_page: its local list artworks
  text,           \* extract_artwork_info_from_text: its text argument
  image,          \* its image argument, a list of at most one image
  artwork,        \* its Artwork
  lines,          \* parse_artwork_linebreak_format: its list lines
  parts,          \* parse_artwork_inline_format: its list parts
  idx,            \* the index of the line or part the running loop is at
  sep_idx,        \* the index of the separator the inline strategy is at
  trace,          \* the calls of the two strategies and the scores they
                  \* computed: <<strategy, event, confidence_score>>
  ret,            \* the list of the returned Artwork, empty for None
  pdf_path,       \* the extractor: self.pdf_path.stem
  doc,            \* self.doc, the document's page handles
  page_num,       \* the enumerate counter of extract_all
  artworks,       \* self.artworks
  skip_log,       \* the page numbers of the printed "Skipping page" lines
  extract_calls,  \* the page numbers of the calls of the field extraction
  file_list,      \* process_pdf_files: the globbed files
  file_num,       \* how many of them the loop has finished
  all_artworks,   \* all_artworks
  outputs,        \* the <stem>_artworks.json files written
  summary         \* all_artworks.json: the empty list while not written

imageVars == <<image_list, images>>
pageVars == <<pending, page_artworks>>
callVars == <<text, image, artwork, lines, parts, idx, sep_idx, trace, ret>>
docVars == <<pdf_path, doc, page_num, artworks, skip_log, extract_calls>>
batchVars == <<file_list, file_num, all_artworks, outputs, summary>>
vars == <<pc, exc, imageVars, pageVars, callVars, docVars, batchVars>>

\* the initial values of the variables a specification starts below
ImageIdle == image_list = <<>> /\ images = <<>>
CallIdle ==
  /\ text = <<>> /\ image = <<>> /\ artwork = Artwork(0)
  /\ lines = <<>> /\ parts = <<>>
  /\ idx = 0 /\ sep_idx = 0 /\ trace = <<>> /\ ret = <<>>
PageIdle == pending = <<>> /\ page_artworks = <<>>
DocIdle ==
  /\ page_num = 0 /\ artworks = <<>> /\ skip_log = <<>> /\ extract_calls = <<>>
BatchIdle ==
  /\ file_list = <<>> /\ file_num = 0 /\ all_artworks = <<>>
  /\ outputs = <<>> /\ summary = <<>>

Stem == "catalogue"

\* ------------------------------------------------------------------------
\* extract_artwork_info_from_text, one step per loop pass
\* ------------------------------------------------------------------------

\* the call with the next pending (text, image):
\* artwork = Artwork(page_number=page_num+1), and the call of strategy A
Call ==
  /\ pc = "call"
  /\ text' = pending[1][1]
  /\ image' = pending[1][2]
  /\ pending' = Tail(pending)
  /\ extract_calls' = Append(extract_calls, page_num + 1)
  /\ artwork' = Artwork(page_num + 1)
  /\ trace' = << <<"A", "call", 0>> >>
  /\ ret' = <<>>
  /\ pc' = "A_names"
  /\ UNCHANGED <<exc, lines, parts, idx, sep_idx, page_artworks>>
  /\ UNCHANGED <<imageVars, batchVars>>
  /\ UNCHANGED <<pdf_path, doc, page_num, artworks, skip_log>>

\* strategy A: lines, and the loop over lines[:5]
A_Names ==
  /\ pc = "A_names"
  /\ lines' = Lines(text)
  /\ artwork' = FindArtistTitle(lines', 1, artwork, FALSE, FALSE)
  /\ idx' = 1
  /\ pc' = "A_lines"
  /\ UNCHANGED <<exc, text, image, parts, sep_idx, trace, ret>>
  /\ UNCHANGED <<imageVars, pageVars, docVars, batchVars>>

\* strategy A, one pass of the loop over all lines
A_Line ==
  /\ pc = "A_lines"
  /\ idx <= Len(lines)
  /\ artwork' = LinebreakLine(lines[idx], artwork)
  /\ idx' = idx + 1
  /\ UNCHANGED <<pc, exc, text, image, lines, parts, sep_idx, trace, ret>>
  /\ UNCHANGED <<imageVars, pageVars, docVars, batchVars>>

\* strategy A scores and returns; on False the "or" calls strategy B
A_Return ==
  /\ pc = "A_lines"
  /\ idx > Len(lines)
  /\ artwork' = Scored(artwork)
  /\ IF Confident(artwork')
       THEN /\ trace' = Append(trace, <<"A", "scored", artwork'.confidence_score>>)
            /\ pc' = "save"
            /\ UNCHANGED sep_idx
       ELSE /\ trace' = trace \o << <<"A", "scored", artwork'.confidence_score>>,
                                    <<"B", "call", 0>> >>
            /\ pc' = "B_split"
            /\ sep_idx' = 1
  /\ UNCHANGED <<exc, text, image, lines, parts, idx, ret>>
  /\ UNCHANGED <<imageVars, pageVars, docVars, batchVars>>

\* strategy B splits on the next separator and, with three parts or more,
\* names artist and title
B_Split ==
  /\ pc = "B_split"
  /\ sep_idx <= Len(separators)
  /\ parts' = StrippedParts(text, separators[sep_idx])
  /\ IF Len(parts') >= 3
       THEN /\ artwork' = InlineNames(parts', artwork)
            /\ idx' = 3
            /\ pc' = "B_parts"
            /\ UNCHANGED sep_idx
       ELSE /\ sep_idx' = sep_idx + 1
            /\ UNCHANGED <<artwork, idx, pc>>
  /\ UNCHANGED <<exc, text, image, lines, trace, ret>>
  /\ UNCHANGED <<imageVars, pageVars, docVars, batchVars>>

\* strategy B, one pass of the loop over parts[2:]
B_Part ==
  /\ pc = "B_parts"
  /\ idx <= Len(parts)
  /\ artwork' = InlinePart(parts[idx], artwork)
  /\ idx' = idx + 1
  /\ UNCHANGED <<pc, exc, text, image, lines, parts, sep_idx, trace, ret>>
  /\ UNCHANGED <<imageVars, pageVars, docVars, batchVars>>

\* strategy B scores: it returns True, or goes on with the next separator
B_Score ==
  /\ pc = "B_parts"
  /\ idx > Len(parts)
  /\ artwork' = Scored(artwork)
  /\ trace' = Append(trace, <<"B", "scored", artwork'.confidence_score>>)
  /\ IF Confident(artwork')
       THEN /\ pc' = "save"
            /\ UNCHANGED sep_idx
       ELSE /\ sep_idx' = sep_idx + 1
            /\ pc' = "B_split"
  /\ UNCHANGED <<exc, text, image, lines, parts, idx, ret>>
  /\ UNCHANGED <<imageVars, pageVars, docVars, batchVars>>

\* strategy B has no separator left: it returns False and the call None
B_ReturnFalse ==
  /\ pc = "B_split"
  /\ sep_idx > Len(separators)
  /\ ret' = <<>>
  /\ pc' = "returned"
  /\ UNCHANGED <<exc, text, image, artwork, lines, parts, idx, sep_idx, trace>>
  /\ UNCHANGED <<imageVars, pageVars, docVars, batchVars>>

\* a strategy returned True: the image is saved and the artwork returned,
\* unless writing the image file raises; nothing in the program catches
\* the exception
SaveAndReturn ==
  /\ pc = "save"
  /\ \E write_ok \in BOOLEAN :
       LET r == SaveImage(artwork, pdf_path, page_num, image, Len(artworks),
                          write_ok)
       IN  IF r.raised
             THEN /\ pc' = "raised"
                  /\ exc' = <<"OSError", page_num + 1>>
                  /\ UNCHANGED <<artwork, ret>>
             ELSE /\ pc' = "returned"
                  /\ artwork' = r.value[1]
                  /\ ret' = r.value
                  /\ UNCHANGED exc
  /\ UNCHANGED <<text, image, lines, parts, idx, sep_idx, trace>>
  /\ UNCHANGED <<imageVars, pageVars, docVars, batchVars>>

ExtractText ==
  \/ Call
  \/ A_Names
  \/ A_Line
  \/ A_Return
  \/ B_Split
  \/ B_Part
  \/ B_Score
  \/ B_ReturnFalse
  \/ SaveAndReturn

\* an image argument: None, or a retained image
ImageArgs == {<<>>, extract_images(<<1>>)}

InitText ==
  /\ pc = "call" /\ exc = <<>>
  /\ pending \in {<< <<t, i>> >> : t \in TextPool, i \in ImageArgs}
  /\ page_artworks = <<>>
  /\ pdf_path = Stem /\ doc = <<>>
  /\ ImageIdle /\ CallIdle /\ DocIdle /\ BatchIdle

NextText == ExtractText

SpecText == InitText /\ [][NextText]_vars

\* ------------------------------------------------------------------------
\* extract_images on the image list of one page
\* ------------------------------------------------------------------------

InitImages ==
  /\ pc = "extract_images" /\ exc = <<>>
  /\ image_list \in SeqsUpTo(Xrefs, MaxImages)
  /\ images = <<>>
  /\ pdf_path = Stem /\ doc = <<>>
  /\ PageIdle /\ CallIdle /\ DocIdle /\ BatchIdle

ExtractImages ==
  /\ pc = "extract_images"
  /\ images' = extract_images(image_list)
  /\ pc' = "returned"
  /\ UNCHANGED <<exc, image_list, pageVars, callVars, docVars, batchVars>>

NextImages == ExtractImages

SpecImages == InitImages /\ [][NextImages]_vars

\* ------------------------------------------------------------------------
\* extract_all and process_page
\* ------------------------------------------------------------------------

\* process_page up to its first call of the field extraction: the page is
\* skipped, or its (text, image) pairs are lined up
ProcessPage ==
  /\ pc = "pages"
  /\ page_num < Len(doc)
  /\ LET page == doc[page_num + 1]
     IN  /\ image_list' = get_images(page)
         /\ images' = extract_images(get_images(page))
         /\ page_artworks' = <<>>
         /\ IF SkipsPage(get_text(page), images')
              THEN /\ skip_log' = Append(skip_log, page_num + 1)
                   /\ page_num' = page_num + 1
                   /\ UNCHANGED <<pc, pending>>
            ELSE IF \/ Len(images') = 1
                    \/ (Len(images') > 0 /\ is_main_artwork_page(get_text(page)))
              THEN /\ pending' = << <<get_text(page), SubSeq(images', 1, 1)>> >>
                   /\ pc' = "call"
                   /\ UNCHANGED <<skip_log, page_num>>
            ELSE IF Len(images') > 1
              THEN /\ pending' = split_page_into_sections(page, images')
                   /\ pc' = "call"
                   /\ UNCHANGED <<skip_log, page_num>>
            ELSE /\ page_num' = page_num + 1
                 /\ UNCHANGED <<pc, pending, skip_log>>
  /\ UNCHANGED <<exc, callVars, batchVars, pdf_path, doc, artworks, extract_calls>>

\* the field extraction returned: "if artwork: artworks.append(artwork)",
\* then the next pair, or the return of process_page and the extend
AfterExtract ==
  /\ pc = "returned"
  /\ page_artworks' = page_artworks \o ret
  /\ IF pending # <<>>
       THEN /\ pc' = "call"
            /\ UNCHANGED <<artworks, page_num>>
       ELSE /\ artworks' = artworks \o page_artworks'
            /\ page_num' = page_num + 1
            /\ pc' = "pages"
  /\ UNCHANGED <<exc, pending, imageVars, callVars, batchVars>>
  /\ UNCHANGED <<pdf_path, doc, skip_log, extract_calls>>

\* "return self.artworks"
ExtractAllReturn ==
  /\ pc = "pages"
  /\ page_num = Len(doc)
  /\ pc' = "all_returned"
  /\ UNCHANGED <<exc, imageVars, pageVars, callVars, docVars, batchVars>>

ExtractAll == ProcessPage \/ AfterExtract \/ ExtractAllReturn

Init ==
  /\ pc = "pages" /\ exc = <<>>
  /\ pdf_path = Stem
  /\ doc \in SeqsUpTo(PageHandles, MaxPages)
  /\ ImageIdle /\ PageIdle /\ CallIdle /\ DocIdle /\ BatchIdle

Next == ExtractText \/ ExtractAll

Spec == Init /\ [][Next]_vars

\* ------------------------------------------------------------------------
\* process_pdf_files
\* ------------------------------------------------------------------------

\* PDFArtworkExtractor(file_path): pymupdf.open raises, and nothing in
\* process_pdf_files catches it
OpenRaises ==
  /\ pc = "files"
  /\ file_num < Len(file_list)
  /\ ~Files[file_list[file_num + 1]].opens
  /\ pc' = "raised"
  /\ exc' = <<"open", file_list[file_num + 1]>>
  /\ UNCHANGED <<imageVars, pageVars, callVars, docVars, batchVars>>

\* PDFArtworkExtractor(file_path) and the call of extract_all
OpenFile ==
  /\ pc = "files"
  /\ file_num < Len(file_list)
  /\ Files[file_list[file_num + 1]].opens
  /\ pdf_path' = Files[file_list[file_num + 1]].stem
  /\ doc' = Files[file_list[file_num + 1]].pages
  /\ page_num' = 0
  /\ artworks' = <<>>
  /\ skip_log' = <<>>
  /\ extract_calls' = <<>>
  /\ pc' = "pages"
  /\ UNCHANGED <<exc, imageVars, pageVars, callVars, batchVars>>

\* extract_all returned: the file's JSON output and the extend
FileDone ==
  /\ pc = "all_returned"
  /\ outputs' = Append(outputs, [stem |-> pdf_path,
                                 artworks |-> JsonArtworks(artworks)])
  /\ all_artworks' = all_artworks \o artworks
  /\ file_num' = file_num + 1
  /\ pc' = "files"
  /\ UNCHANGED <<exc, file_list, summary, imageVars, pageVars, callVars, docVars>>

\* after the loop: the summary file, written if there is any artwork
WriteSummary ==
  /\ pc = "files"
  /\ file_num = Len(file_list)
  /\ summary' = IF all_artworks # <<>> THEN <<JsonArtworks(all_artworks)>>
                ELSE <<>>
  /\ pc' = "done"
  /\ UNCHANGED <<exc, file_list, file_num, all_artworks, outputs>>
  /\ UNCHANGED <<imageVars, pageVars, callVars, docVars>>

ProcessPdfFiles == OpenRaises \/ OpenFile \/ FileDone \/ WriteSummary

\* glob lists each file once, in any order
InitBatch ==
  /\ pc = "files" /\ exc = <<>>
  /\ file_list \in {l \in SeqsUpTo(DOMAIN Files, MaxFiles) :
                      \A i, j \in DOMAIN l : l[i] = l[j] => i = j}
  /\ file_num = 0 /\ all_artworks = <<>> /\ outputs = <<>> /\ summary = <<>>
  /\ pdf_path = Stem /\ doc = <<>>
  /\ ImageIdle /\ PageIdle /\ CallIdle /\ DocIdle

NextBatch == ExtractText \/ ExtractAll \/ ProcessPdfFiles

SpecBatch == InitBatch /\ [][NextBatch]_vars

\* ------------------------------------------------------------------------
\* Properties
\* ------------------------------------------------------------------------

ScoredFields == {"title", "artist", "year", "dimensions", "medium"}

TextFields == ScoredFields \cup {"price"}

InSeq(x, seq) == \E i \in DOMAIN seq : seq[i] = x

\* the positions of image_list whose image both sides of which exceed 100
Retained(list) ==
  {k \in DOMAIN list :
     /\ extract_image(list[k]) # <<>>
     /\ extract_image(list[k])[1].width > 100
     /\ extract_image(list[k])[1].height > 100}

Area(list, k) ==
  extract_image(list[k])[1].width * extract_image(list[k])[1].height

\* how many retained images go before the one at position k: the larger
\* ones, and the equally large ones listed earlier
Rank(list, k) ==
  Cardinality({j \in Retained(list) :
                 \/ Area(list, j) > Area(list, k)
                 \/ (Area(list, j) = Area(list, k) /\ j < k)})

\* the image_data dict of the image at position k
ImageAt(list, k) ==
  [xref |-> list[k],
   width |-> extract_image(list[k])[1].width,
   height |-> extract_image(list[k])[1].height,
   image_bytes |-> list[k],
   extension |-> extract_image(list[k])[1].ext]

Largest(list) == CHOOSE k \in Retained(list) : Rank(list, k) = 0

\* C1: every record in the list extract_all returns has a confidence_score
\* of (number of non-empty fields among title, artist, year, dimensions,
\* medium) / 5; the score is kept in tenths.
C1_ConfidenceScore ==
  \A i \in DOMAIN artworks :
    5 * artworks[i].confidence_score =
      10 * Cardinality({f \in ScoredFields : artworks[i][f] # <<>>})

\* extract_all returned a record with all five fields and one with four
\* fields and a price
C1_Witness ==
  /\ pc = "all_returned"
  /\ \E i, j \in DOMAIN artworks :
       /\ artworks[i].confidence_score = 10
       /\ artworks[j].confidence_score = 8
       /\ artworks[j].price # <<>>

ACall == <<"A", "call", 0>>

BCall == <<"B", "call", 0>>

IsScore(e) == e[2] = "scored"

InStrategyA ==
  \/ pc = "A_lines"
  \/ (pc \in {"save", "returned"} /\ ~InSeq(BCall, trace))

\* whether a record was parsed by strategy B
ParsedByB ==
  /\ pc \in {"save", "returned"}
  /\ InSeq(BCall, trace)
  /\ artwork.confidence_score > 6

\* C3: when strategy B is entered, artist and title are empty; a record B
\* returns has the first part as artist and the second part as title of the
\* split on the separator that succeeded; the text "Mary Smith, Blue
\* Horizon, acrylic on canvas, 2021, 30x40 cm" gives artist "Mary Smith",
\* title "Blue Horizon", medium "acrylic on canvas", year "2021" and
\* dimensions "30x40 cm".
C3_InlineNamesFromParts ==
  /\ (pc = "B_split" /\ sep_idx = 1) =>
       (artwork.artist = <<>> /\ artwork.title = <<>>)
  /\ ParsedByB =>
       /\ artwork.artist = StrippedParts(text, separators[sep_idx])[1]
       /\ artwork.title = StrippedParts(text, separators[sep_idx])[2]
  /\ (pc = "returned" /\ text = Scenario3Text) =>
       /\ ret # <<>>
       /\ ret[1].artist = <<"M", "a", "r", "y", " ", "S", "m", "i", "t", "h">>
       /\ ret[1].title = <<"B", "l", "u", "e", " ", "H", "o", "r", "i", "z", "o", "n">>
       /\ ret[1].medium = <<"a", "c", "r", "y", "l", "i", "c", " ", "o", "n", " ", "c", "a", "n", "v", "a", "s">>
       /\ ret[1].year = <<"2", "0", "2", "1">>
       /\ ret[1].dimensions = <<"3", "0", "x", "4", "0", " ", "c", "m">>

\* whether the code is to skip the page: no retained image, or a text of
\* more than 2000 characters with fewer than 2 retained images
ShouldSkip(page) ==
  \/ Retained(get_images(page)) = {}
  \/ /\ Len(get_text(page)) > 2000
     /\ Cardinality(Retained(get_images(page))) < 2

\* C4: a page is skipped (logged as skipped, no field extraction called on
\* it, no record of it) exactly when it has no retained image, or its text
\* is longer than 2000 characters and it has fewer than 2 retained images;
\* every other page has the field extraction called on it.
C4_SkipExactly ==
  \A p \in DOMAIN doc :
    /\ InSeq(p, skip_log) =>
         /\ ShouldSkip(doc[p])
         /\ ~InSeq(p, extract_calls)
         /\ \A i \in DOMAIN artworks : artworks[i].page_number # p
    /\ InSeq(p, extract_calls) => ~ShouldSkip(doc[p])
    /\ Retained(get_images(doc[p])) = {} => ~InSeq(p, extract_calls)
    /\ p <= page_num =>
         /\ InSeq(p, skip_log) <=> ShouldSkip(doc[p])
         /\ InSeq(p, extract_calls) <=> ~ShouldSkip(doc[p])

\* of two pages with more than 2000 characters of text, the one with a
\* single retained image was skipped and the one with two was extracted
C4_Witness ==
  /\ pc = "all_returned"
  /\ Len(doc) = 2
  /\ Len(get_text(doc[1])) > 2000 /\ Len(get_text(doc[2])) > 2000
  /\ skip_log = <<1>>
  /\ extract_calls = <<2>>

\* C5: extract_images returns exactly the images with width > 100 and
\* height > 100, by width*height descending, images of equal area in the
\* order of the page's image list.
C5_FilteredAndSorted ==
  pc # "extract_images" =>
    /\ Len(images) = Cardinality(Retained(image_list))
    /\ \A k \in Retained(image_list) :
         images[Rank(image_list, k) + 1] = ImageAt(image_list, k)
    /\ \A i \in DOMAIN images :
         images[i].width > 100 /\ images[i].height > 100

\* two images of equal area came back in the order listed, the one listed
\* first being the narrower, and a small image was dropped
C5_Witness ==
  /\ pc = "returned"
  /\ Len(image_list) = 3
  /\ Len(images) = 2
  /\ images[1].width * images[1].height = images[2].width * images[2].height
  /\ images[1].width < images[2].width
  /\ images[1].xref = image_list[1]

\* C6: within one call of extract_artwork_info_from_text no step changes a
\* text field (title, artist, year, dimensions, medium, price) that is
\* already non-empty.
C6_FirstMatchWins ==
  [][pc # "call" =>
       \A f \in TextFields : artwork[f] # <<>> => artwork'[f] = artwork[f]]_vars

\* strategy B is at work on three parts or more with an artist that
\* strategy A had set and that is not B's first part
C6_Witness ==
  /\ pc = "B_parts"
  /\ artwork.artist # <<>>
  /\ artwork.artist # StrippedParts(text, separators[sep_idx])[1]

\* the lines strategy A may take artist and title from
HeadLines == {i \in DOMAIN Lines(text) : i <= 5}

Names(line) == Len(line) >= 3 /\ ~IsDigit(line) /\ ~is_likely_metadata(line)

NameLines == {i \in HeadLines : Names(Lines(text)[i])}

\* C7: in strategy A artist is the first of the first 5 non-empty trimmed
\* lines that has 3 characters or more, is not all digits and is not
\* metadata-like, and title the next such line among the same 5; later
\* lines give neither.  The text "Jane Doe\nSunset Over the Bay\noil on
\* canvas\n24 x 36 in\n2019\n$4,500" gives those two names, medium "oil on
\* canvas", dimensions "24 x 36 in", year "2019", price "$4,500" and
\* confidence 1.0.
C7_LinebreakNames ==
  /\ InStrategyA =>
       /\ artwork.artist =
            IF NameLines = {} THEN <<>> ELSE Lines(text)[Min(NameLines)]
       /\ artwork.title =
            IF Cardinality(NameLines) < 2 THEN <<>>
            ELSE Lines(text)[Min(NameLines \ {Min(NameLines)})]
  /\ (pc = "returned" /\ text = Scenario1Text) =>
       /\ ret # <<>>
       /\ ret[1].artist = <<"J", "a", "n", "e", " ", "D", "o", "e">>
       /\ ret[1].title = <<"S", "u", "n", "s", "e", "t", " ", "O", "v", "e", "r", " ", "t", "h", "e", " ", "B", "a", "y">>
       /\ ret[1].medium = <<"o", "i", "l", " ", "o", "n", " ", "c", "a", "n", "v", "a", "s">>
       /\ ret[1].dimensions = <<"2", "4", " ", "x", " ", "3", "6", " ", "i", "n">>
       /\ ret[1].year = <<"2", "0", "1", "9">>
       /\ ret[1].price = <<"$", "4", ",", "5", "0", "0">>
       /\ ret[1].confidence_score = 10

\* the call returned the artwork of the six-line text
C7_Witness ==
  /\ pc = "returned"
  /\ text = Scenario1Text
  /\ ret # <<>>
  /\ ret[1].confidence_score = 10

\* C8: when writing the image file of a parsed artwork fails, the artwork
\* is still returned, without an image reference, and the run goes on
\* with the remaining pages.
C8_WriteFailureKeepsRecord ==
  (exc # <<>> /\ exc[1] = "OSError") =>
    /\ pc # "raised"
    /\ ret # <<>>
    /\ ret[1].page_number = exc[2]
    /\ ret[1].image_path = <<>>

\* whether process_pdf_files has come to its end
BatchOver == pc \in {"done", "raised"}

\* C9: when a file fails to open, every file that opens is still
\* processed: at the end of the batch each has its output, and the summary
\* holds the records of them all.
C9_OpenFailureIsLocal ==
  (BatchOver /\ (exc = <<>> \/ exc[1] = "open")) =>
    /\ \A k \in DOMAIN file_list :
         Files[file_list[k]].opens =>
           \E o \in DOMAIN outputs : outputs[o].stem = Files[file_list[k]].stem
    /\ all_artworks # <<>> => summary = <<JsonArtworks(all_artworks)>>

\* the pcs of a call of extract_artwork_info_from_text under way
ExtractingPcs == {"A_names", "A_lines", "B_split", "B_parts", "save"}

\* C10: pages are processed in document order and each at most once; a
\* page gives at most one record, parsed from the full text of the page
\* and carrying its largest retained image; the page_number values of the
\* returned list are strictly increasing, each the 1-based position of the
\* page the record comes from.
C10_PagesInOrder ==
  /\ \A i, j \in DOMAIN artworks :
       i < j => artworks[i].page_number < artworks[j].page_number
  /\ \A i, j \in DOMAIN extract_calls :
       i < j => extract_calls[i] < extract_calls[j]
  /\ \A i \in DOMAIN artworks :
       LET p == artworks[i].page_number
       IN  /\ p \in 1..page_num
           /\ InSeq(p, extract_calls)
           /\ Retained(get_images(doc[p])) # {}
           /\ artworks[i].image_data =
                <<"data:image",
                  ImageAt(get_images(doc[p]), Largest(get_images(doc[p]))).extension,
                  ImageAt(get_images(doc[p]), Largest(get_images(doc[p]))).image_bytes>>
  /\ pc \in ExtractingPcs =>
       /\ artwork.page_number = page_num + 1
       /\ text = get_text(doc[page_num + 1])
       /\ image = <<ImageAt(get_images(doc[page_num + 1]),
                            Largest(get_images(doc[page_num + 1])))>>

\* extract_all returned two records, the first from a page with several
\* retained images
C10_Witness ==
  /\ pc = "all_returned"
  /\ Len(artworks) = 2
  /\ Cardinality(Retained(get_images(doc[1]))) > 1

====
